---- MODULE Spec2Model ----
(***************************************************************************)
(* Model of notebooks/utils.py: the plotting helpers of the Hopfield       *)
(* network notebooks.  Every function of the module is a call-and-return   *)
(* operation; each gets a specification whose Init draws its inputs and    *)
(* whose action applies the function as the code computes it.              *)
(***************************************************************************)
EXTENDS Integers, Sequences, FiniteSets, TLC

VARIABLES
    \* plot_patterns
    N, grid_shape, grid_pc,
    \* mask_pattern, merge_patterns: the arrays of the session and the calls
    heap, p1, p2, in1, in2, pat_pc, masked, m12, m21, mm,
    \* visualise_hopfield_network: the network's attributes, the call, the drawing
    N_patterns, history, steps_back, vis_pc, shown_state, shown_sims,
    best_pattern_id, colors, tick_colors, inset_pattern,
    \* animate_hopfield_network: the arguments, the frames drawn so far
    n_steps, fps, animation_length_halfsecs, anim_pc, n_frames,
    steps_back_to_plot, frame, vis_calls, suptitles,
    \* plot_energy: the energy history, the argument, what is plotted
    energy_history, n_steps_arg, pe_pc, pe_n_steps, energy, t, counts, inset_states

gridVars == <<N, grid_shape, grid_pc>>
patVars == <<heap, p1, p2, in1, in2, pat_pc, masked, m12, m21, mm>>
visVars == <<N_patterns, history, steps_back, vis_pc, shown_state, shown_sims,
             best_pattern_id, colors, tick_colors, inset_pattern>>
animVars == <<n_steps, fps, animation_length_halfsecs, anim_pc, n_frames,
              steps_back_to_plot, frame, vis_calls, suptitles>>
peVars == <<energy_history, n_steps_arg, pe_pc, pe_n_steps, energy, t, counts,
            inset_states>>
vars == <<gridVars, patVars, visVars, animVars, peVars>>

(***************************************************************************)
(* Bounds                                                                  *)
(***************************************************************************)
MaxN == 60
MaxMaskCells == 8
MaxMergeCells == 4
MaxHistory == 2
MaxPatterns == 2
MaxSteps == 4
MaxFps == 3
MaxHalfSecs == 4
MaxEnergyLen == 4

(***************************************************************************)
(* A specification exercises one function; the variables of the others    *)
(* rest at these values.                                                   *)
(***************************************************************************)
GridOff == N = 0 /\ grid_shape = <<>> /\ grid_pc = "off"

PatOff ==
    /\ heap = <<>> /\ p1 = 0 /\ p2 = 0 /\ in1 = <<>> /\ in2 = <<>>
    /\ pat_pc = "off" /\ masked = 0 /\ m12 = 0 /\ m21 = 0 /\ mm = 0

VisOff ==
    /\ N_patterns = 0 /\ history = <<>> /\ steps_back = 0 /\ vis_pc = "off"
    /\ shown_state = 0 /\ shown_sims = <<>> /\ best_pattern_id = 0
    /\ colors = <<>> /\ tick_colors = <<>> /\ inset_pattern = <<>>

AnimOff ==
    /\ n_steps = 0 /\ fps = 0 /\ animation_length_halfsecs = 0 /\ anim_pc = "off"
    /\ n_frames = 0 /\ steps_back_to_plot = <<>> /\ frame = 0
    /\ vis_calls = <<>> /\ suptitles = <<>>

EnergyOff ==
    /\ energy_history = <<>> /\ n_steps_arg = <<>> /\ pe_pc = "off"
    /\ pe_n_steps = 0 /\ energy = <<>> /\ t = <<>> /\ counts = <<>>
    /\ inset_states = <<>>

(***************************************************************************)
(* Generic helpers                                                         *)
(***************************************************************************)
SetMax(S) == CHOOSE x \in S : \A y \in S : y <= x
SetMin(S) == CHOOSE x \in S : \A y \in S : x <= y
Abs(x) == IF x < 0 THEN -x ELSE x

(***************************************************************************)
(* Python sequences.  seq[i] with a 0-based, possibly negative index: a    *)
(* negative index counts from the end, and an index outside the sequence   *)
(* raises IndexError.                                                      *)
(***************************************************************************)
\* an index that silently wraps around
PyResolveWrap(len, i) == i % len

\* the 0-based position a Python index names
PyResolve(len, i) == IF i < 0 THEN i + len ELSE i

PyIndexOk(seq, i) == PyResolve(Len(seq), i) \in 0..(Len(seq) - 1)
PyGet(seq, i) == seq[PyResolve(Len(seq), i) + 1]

\* seq[k:]
PySliceFrom(seq, k) ==
    LET len == Len(seq)
        start == IF k < 0
                 THEN (IF len + k < 0 THEN 0 ELSE len + k)
                 ELSE (IF k > len THEN len ELSE k)
    IN  SubSeq(seq, start + 1, len)

\* np.arange(a, b)
Arange(a, b) == [i \in 1..(IF b > a THEN b - a ELSE 0) |-> a + (i - 1)]

\* np.argmax(seq): the 0-based position of the first maximum
ArgMax(seq) ==
    CHOOSE i \in 0..(Len(seq) - 1) :
        /\ \A k \in 1..Len(seq) : seq[k] <= seq[i + 1]
        /\ \A k \in 1..i : seq[k] < seq[i + 1]

\* np.argmin(seq): the 0-based position of the first minimum
ArgMin(seq) ==
    CHOOSE i \in 0..(Len(seq) - 1) :
        /\ \A k \in 1..Len(seq) : seq[k] >= seq[i + 1]
        /\ \A k \in 1..i : seq[k] > seq[i + 1]

(***************************************************************************)
(* Arrays.  A pattern is a 2D numpy array: a sequence of rows.  Arrays     *)
(* live in a heap and are named by references (positions of the heap), so  *)
(* that in-place slice assignment and aliasing are what they are in numpy. *)
(* Row and column positions are 1-based here: the code's 0-based index r   *)
(* is position r + 1, and "r < h // 2" reads "position <= h \div 2".       *)
(***************************************************************************)
Vals == {-1, 0, 1}
ScenarioShape == <<4, 4>>

Rows(a) == Len(a)
Cols(a) == Len(a[1])
Arrays(h, w) == [1..h -> [1..w -> Vals]]
Full(h, w, v) == [i \in 1..h |-> [j \in 1..w |-> v]]
Shapes(cells) == {s \in (1..cells) \X (1..cells) : s[1] * s[2] <= cells}

\* np.zeros_like(a): a new array of a's shape
zeros_like(h, r) ==
    [heap |-> Append(h, Full(Rows(h[r]), Cols(h[r]), 0)), ref |-> Len(h) + 1]

\* a[rows, cols] = v, in place
SetBlock(h, r, rows, cols, v) ==
    [h EXCEPT ![r] = [i \in 1..Rows(@) |-> [j \in 1..Cols(@) |->
        IF i \in rows /\ j \in cols THEN v ELSE @[i][j]]]]

\* a * b, elementwise, a new array
Mul(h, a, b) ==
    [heap |-> Append(h, [i \in 1..Rows(h[a]) |-> [j \in 1..Cols(h[a]) |->
                            h[a][i][j] * h[b][i][j]]]),
     ref |-> Len(h) + 1]

\* a + b, elementwise, a new array
Add(h, a, b) ==
    [heap |-> Append(h, [i \in 1..Rows(h[a]) |-> [j \in 1..Cols(h[a]) |->
                            h[a][i][j] + h[b][i][j]]]),
     ref |-> Len(h) + 1]

\* a "copy" that is the same object
deepcopy_alias(h, r) == [heap |-> h, ref |-> r]

\* copy.deepcopy(a): a new array with a's cells
deepcopy(h, r) == [heap |-> Append(h, h[r]), ref |-> Len(h) + 1]

\* the mask block taken over all the rows: mask[:, : w // 2] = 1
mask_pattern_rows(h, p) ==
    LET mask == zeros_like(h, p)
        hh == Rows(h[p])
        ww == Cols(h[p])
        h1 == SetBlock(mask.heap, mask.ref, 1..hh, 1..(ww \div 2), 1)
    IN  Mul(h1, p, mask.ref)

\* mask_pattern(pattern), utils.py 247-251
mask_pattern(h, p) ==
    LET mask == zeros_like(h, p)
        hh == Rows(h[p])
        ww == Cols(h[p])
        h1 == SetBlock(mask.heap, mask.ref, 1..(hh \div 2), 1..(ww \div 2), 1)
    IN  Mul(h1, p, mask.ref)

\* the split one column late: pattern[:, w // 2 + 1 :] and pattern[:, : w // 2 + 1]
merge_patterns_late(h, a, b) ==
    LET c1 == deepcopy(h, a)
        c2 == deepcopy(c1.heap, b)
        w1 == Cols(c2.heap[c1.ref])
        w2 == Cols(c2.heap[c2.ref])
        h3 == SetBlock(c2.heap, c1.ref, 1..Rows(c2.heap[c1.ref]), (w1 \div 2 + 2)..w1, 0)
        h4 == SetBlock(h3, c2.ref, 1..Rows(h3[c2.ref]), 1..(w2 \div 2 + 1), 0)
    IN  Add(h4, c1.ref, c2.ref)

\* the second slice assignment left out
merge_patterns_left_kept(h, a, b) ==
    LET c1 == deepcopy(h, a)
        c2 == deepcopy(c1.heap, b)
        w1 == Cols(c2.heap[c1.ref])
        h3 == SetBlock(c2.heap, c1.ref, 1..Rows(c2.heap[c1.ref]), (w1 \div 2 + 1)..w1, 0)
    IN  Add(h3, c1.ref, c2.ref)

\* merge_patterns(pattern1, pattern2), utils.py 254-260
merge_patterns(h, a, b) ==
    LET c1 == deepcopy(h, a)
        c2 == deepcopy(c1.heap, b)
        w1 == Cols(c2.heap[c1.ref])
        w2 == Cols(c2.heap[c2.ref])
        h3 == SetBlock(c2.heap, c1.ref, 1..Rows(c2.heap[c1.ref]), (w1 \div 2 + 1)..w1, 0)
        h4 == SetBlock(h3, c2.ref, 1..Rows(h3[c2.ref]), 1..(w2 \div 2), 0)
    IN  Add(h4, c1.ref, c2.ref)

(***************************************************************************)
(* mask_pattern: one call on a caller-owned pattern                        *)
(***************************************************************************)
MaskInputs ==
    UNION {Arrays(s[1], s[2]) : s \in Shapes(MaxMaskCells)}
        \cup {Full(ScenarioShape[1], ScenarioShape[2], v) : v \in Vals}

InitMask ==
    /\ \E a \in MaskInputs : heap = <<a>> /\ in1 = a
    /\ p1 = 1 /\ p2 = 0 /\ in2 = <<>>
    /\ pat_pc = "call"
    /\ masked = 0 /\ m12 = 0 /\ m21 = 0 /\ mm = 0
    /\ GridOff /\ VisOff /\ AnimOff /\ EnergyOff

CallMask ==
    /\ pat_pc = "call"
    /\ LET r == mask_pattern(heap, p1)
       IN  heap' = r.heap /\ masked' = r.ref
    /\ pat_pc' = "masked"
    /\ UNCHANGED <<p1, p2, in1, in2, m12, m21, mm, gridVars, visVars, animVars, peVars>>

NextMask == CallMask

SpecMask == InitMask /\ [][NextMask]_vars

CountCells(a, v) ==
    Cardinality({c \in (1..Rows(a)) \X (1..Cols(a)) : a[c[1]][c[2]] = v})

\* C2: mask_pattern returns an array of the input's shape that equals the
\* input at every cell of the top-left quadrant (row < h // 2 and column < w // 2)
\* and is zero at every other cell; a 4x4 all-ones pattern gives 4 ones and
\* 12 zeros; the input array is left unmodified.
C2_MaskQuadrant ==
    pat_pc = "masked" =>
        LET out == heap[masked]
            hh == Rows(in1)
            ww == Cols(in1)
        IN  /\ masked # p1
            /\ Rows(out) = hh /\ Cols(out) = ww
            /\ \A i \in 1..hh : \A j \in 1..ww :
                out[i][j] = IF i <= hh \div 2 /\ j <= ww \div 2 THEN in1[i][j] ELSE 0
            /\ heap[p1] = in1
            /\ in1 = Full(4, 4, 1) => CountCells(out, 1) = 4 /\ CountCells(out, 0) = 12

C2_Witness ==
    /\ pat_pc = "masked"
    /\ in1 = Full(4, 4, 1)
    /\ heap[masked] = [i \in 1..4 |-> [j \in 1..4 |-> IF i <= 2 /\ j <= 2 THEN 1 ELSE 0]]

(***************************************************************************)
(* merge_patterns: merge(p1, p2), then merge(p2, p1), then the merge of    *)
(* the two results; p1 and p2 may be one and the same array                *)
(***************************************************************************)
MergeInputs ==
    UNION {Arrays(s[1], s[2]) \X Arrays(s[1], s[2]) : s \in Shapes(MaxMergeCells)}
        \cup {<<Full(ScenarioShape[1], ScenarioShape[2], v[1]),
                Full(ScenarioShape[1], ScenarioShape[2], v[2])>> : v \in Vals \X Vals}

InitMerge ==
    /\ \E ab \in MergeInputs :
        /\ in1 = ab[1] /\ in2 = ab[2]
        /\ \/ heap = <<ab[1], ab[2]>> /\ p1 = 1 /\ p2 = 2
           \/ ab[1] = ab[2] /\ heap = <<ab[1]>> /\ p1 = 1 /\ p2 = 1
    /\ pat_pc = "call"
    /\ masked = 0 /\ m12 = 0 /\ m21 = 0 /\ mm = 0
    /\ GridOff /\ VisOff /\ AnimOff /\ EnergyOff

CallMerge ==
    /\ pat_pc = "call"
    /\ LET r == merge_patterns(heap, p1, p2)
       IN  heap' = r.heap /\ m12' = r.ref
    /\ pat_pc' = "merged"
    /\ UNCHANGED <<p1, p2, in1, in2, masked, m21, mm, gridVars, visVars, animVars, peVars>>

CallMergeSwapped ==
    /\ pat_pc = "merged"
    /\ LET r == merge_patterns(heap, p2, p1)
       IN  heap' = r.heap /\ m21' = r.ref
    /\ pat_pc' = "swapped"
    /\ UNCHANGED <<p1, p2, in1, in2, masked, m12, mm, gridVars, visVars, animVars, peVars>>

CallMergeAgain ==
    /\ pat_pc = "swapped"
    /\ LET r == merge_patterns(heap, m12, m21)
       IN  heap' = r.heap /\ mm' = r.ref
    /\ pat_pc' = "remerged"
    /\ UNCHANGED <<p1, p2, in1, in2, masked, m12, m21, gridVars, visVars, animVars, peVars>>

NextMerge == CallMerge \/ CallMergeSwapped \/ CallMergeAgain

SpecMerge == InitMerge /\ [][NextMerge]_vars

\* what the claim C3 expects of a merge: a on the columns < w // 2, b on the others
LeftRight(a, b) ==
    [i \in 1..Rows(a) |-> [j \in 1..Cols(a) |->
        IF j <= Cols(a) \div 2 THEN a[i][j] ELSE b[i][j]]]

RightHalfEqual(a, b) ==
    \A i \in 1..Rows(a) : \A j \in (Cols(a) \div 2 + 1)..Cols(a) : a[i][j] = b[i][j]

\* C3: for patterns p1, p2 of equal shape, merge_patterns(p1, p2) equals p1 at
\* every cell with column index < w // 2 and p2 at every cell with column index
\* >= w // 2, for even and odd w alike (each of the three calls is checked).
C3_MergeHalves ==
    /\ pat_pc \in {"merged", "swapped", "remerged"} => heap[m12] = LeftRight(in1, in2)
    /\ pat_pc \in {"swapped", "remerged"} => heap[m21] = LeftRight(in2, in1)
    /\ pat_pc = "remerged" => heap[mm] = LeftRight(heap[m12], heap[m21])

C3_Witness ==
    /\ pat_pc = "merged"
    /\ in1 = <<<<1, 1, 1>>>> /\ in2 = <<<<-1, -1, -1>>>>
    /\ heap[m12] = <<<<1, -1, -1>>>>

\* C4: a call of merge_patterns leaves the caller's arrays unchanged: every
\* array that exists before the call has the same cells after it, also when
\* both arguments are the same array object.
C4_InputsUnchanged ==
    [][\A r \in 1..Len(heap) : heap'[r] = heap[r]]_vars

C4_Witness ==
    /\ pat_pc = "merged"
    /\ p1 = p2
    /\ in1 = <<<<1, -1>>, <<-1, 1>>>>
    /\ heap[p1] = in1
    /\ heap[m12] = in1

\* C9 as claimed: merge(p1, p2) = merge(p2, p1) iff p1 = p2, and the merge of
\* the two swapped results reproduces merge(p1, p2) only when p1 = p2.
C9_Claimed ==
    pat_pc = "remerged" =>
        /\ heap[m12] = heap[m21] <=> in1 = in2
        /\ heap[mm] = heap[m12] => in1 = in2

\* C9 amended: merge(p1, p2) = merge(p2, p1) iff p1 = p2; the merge of the two
\* swapped results is p1, and it reproduces merge(p1, p2) exactly when p1 and
\* p2 agree on the right half (the columns >= w // 2).
C9_SwapAmended ==
    /\ pat_pc \in {"swapped", "remerged"} => (heap[m12] = heap[m21] <=> in1 = in2)
    /\ pat_pc = "remerged" =>
        /\ heap[mm] = in1
        /\ heap[mm] = heap[m12] <=> RightHalfEqual(in1, in2)

C9_Witness ==
    /\ pat_pc = "remerged"
    /\ in1 # in2
    /\ heap[mm] = heap[m12]
    /\ heap[m12] # heap[m21]

(***************************************************************************)
(* visualise_hopfield_network (utils.py 40-108).  The network is the       *)
(* caller's: history["state"] and history["similarities"] hold one entry   *)
(* per step, a state being abstracted to a scalar and a similarity to an   *)
(* integer in -1..1.                                                       *)
(***************************************************************************)
StateVals == {-1, 1}
SimVals == {-1, 0, 1}
AllNames == <<"cat", "dog", "owl", "fox">>

\* HopfieldNetwork.pattern_names
pattern_names == SubSeq(AllNames, 1, N_patterns)

\* HopfieldNetwork.patterns_dict
patterns_dict ==
    "cat" :> <<<<1, 1>>>> @@ "dog" :> <<<<1, -1>>>> @@
    "owl" :> <<<<-1, 1>>>> @@ "fox" :> <<<<-1, -1>>>>

\* the argmax taken over the signed similarities
BestPatternSigned(similarities) == ArgMax(similarities)

\* best_pattern_id = np.argmax(np.abs(similarities))
BestPattern(similarities) ==
    ArgMax([k \in 1..Len(similarities) |-> Abs(similarities[k])])

InitVis ==
    /\ N_patterns \in 1..MaxPatterns
    /\ \E len \in 1..MaxHistory :
        history \in [state : [1..len -> StateVals],
                     similarities : [1..len -> [1..N_patterns -> SimVals]]]
    /\ steps_back = 0 /\ vis_pc = "call"
    /\ shown_state = 0 /\ shown_sims = <<>> /\ best_pattern_id = 0
    /\ colors = <<>> /\ tick_colors = <<>> /\ inset_pattern = <<>>
    /\ GridOff /\ PatOff /\ AnimOff /\ EnergyOff

visualise_hopfield_network ==
    /\ vis_pc = "call"
    /\ \E sb \in 0..(MaxHistory + 1) :
        /\ steps_back' = sb
        /\ IF ~PyIndexOk(history.state, -sb - 1)
           THEN /\ vis_pc' = "IndexError"
                /\ UNCHANGED <<shown_state, shown_sims, best_pattern_id, colors,
                               tick_colors, inset_pattern>>
           ELSE LET state == PyGet(history.state, -sb - 1)
                    similarities == PyGet(history.similarities, -sb - 1)
                    best == BestPattern(similarities)
                IN  /\ shown_state' = state
                    /\ shown_sims' = similarities
                    /\ best_pattern_id' = best
                    /\ colors' = [[k \in 1..N_patterns |-> "C0"] EXCEPT ![best + 1] = "blue"]
                    /\ tick_colors' = [k \in 1..N_patterns |->
                                          IF k - 1 = best THEN "blue" ELSE "default"]
                    /\ inset_pattern' = patterns_dict[pattern_names[best + 1]]
                    /\ vis_pc' = "done"
    /\ UNCHANGED <<N_patterns, history, gridVars, patVars, animVars, peVars>>

NextVis == visualise_hopfield_network

SpecVis == InitVis /\ [][NextVis]_vars

\* C5: with a history of length L >= 1 and steps_back >= 0, a call with
\* steps_back <= L - 1 displays the state and the similarities at index
\* (L - 1) - steps_back, and a call with steps_back >= L fails with an
\* IndexError and never displays some other entry.
C5_StepsBack ==
    LET L == Len(history.state)
    IN  /\ vis_pc = "done" =>
            /\ steps_back <= L - 1
            /\ shown_state = history.state[((L - 1) - steps_back) + 1]
            /\ shown_sims = history.similarities[((L - 1) - steps_back) + 1]
        /\ vis_pc = "IndexError" => steps_back >= L
        /\ (vis_pc \in {"done", "IndexError"} /\ steps_back >= L) =>
            /\ vis_pc = "IndexError"
            /\ shown_sims = <<>>

C5_Witness ==
    /\ vis_pc = "IndexError"
    /\ Len(history.state) = 2
    /\ steps_back = 2

\* C10: the best pattern is the smallest index whose absolute similarity is
\* the maximum absolute similarity (first occurrence wins, negative values
\* compete by magnitude); exactly that bar is highlighted, every other bar
\* keeps the default colour, and the inset shows the pattern stored under
\* the name at that index.
C10_BestPattern ==
    vis_pc = "done" =>
        LET b == best_pattern_id + 1
        IN  /\ b \in 1..N_patterns
            /\ \A k \in 1..N_patterns : Abs(shown_sims[k]) <= Abs(shown_sims[b])
            /\ \A k \in 1..(b - 1) : Abs(shown_sims[k]) < Abs(shown_sims[b])
            /\ \A k \in 1..N_patterns : colors[k] = IF k = b THEN "blue" ELSE "C0"
            /\ inset_pattern = patterns_dict[pattern_names[b]]

C10_Witness ==
    /\ vis_pc = "done"
    /\ shown_sims = <<0, -1>>
    /\ best_pattern_id = 1
    /\ colors = <<"C0", "blue">>

(***************************************************************************)
(* animate_hopfield_network (utils.py 215-244).  animation_length_secs is  *)
(* counted in half seconds so that int(animation_length_secs * fps)        *)
(* truncates.  The animation driver calls animate for the frames           *)
(* 0 .. n_frames - 1 in order; vis_calls logs the steps_back of every call *)
(* of HopfieldNetwork.visualise, the first being the call of line 227.     *)
(***************************************************************************)
\* the samples spaced by stop / num, the endpoint left out
LinspaceOpen(stop, num) == [i \in 1..num |-> ((i - 1) * stop) \div num]

\* np.linspace(0, stop, num, dtype=int)
Linspace(stop, num) ==
    [i \in 1..num |->
        IF num > 1 /\ i = num THEN stop
        ELSE IF num = 1 THEN 0
        ELSE ((i - 1) * stop) \div (num - 1)]

InitAnim ==
    /\ n_steps \in 0..MaxSteps
    /\ fps \in 1..MaxFps
    /\ animation_length_halfsecs \in 1..MaxHalfSecs
    /\ anim_pc = "call"
    /\ n_frames = 0 /\ steps_back_to_plot = <<>> /\ frame = 0
    /\ vis_calls = <<>> /\ suptitles = <<>>
    /\ GridOff /\ PatOff /\ VisOff /\ EnergyOff

animate_hopfield_network ==
    /\ anim_pc = "call"
    /\ LET nf == (animation_length_halfsecs * fps) \div 2
       IN  /\ n_frames' = nf
           /\ steps_back_to_plot' = Linspace(n_steps, nf)
           /\ anim_pc' = IF nf = 0 THEN "done" ELSE "animating"
    /\ vis_calls' = <<0>>
    /\ UNCHANGED <<n_steps, fps, animation_length_halfsecs, frame, suptitles,
                   gridVars, patVars, visVars, peVars>>

animate ==
    /\ anim_pc = "animating"
    /\ frame < n_frames
    /\ LET sb == n_steps - steps_back_to_plot[frame + 1]
       IN  vis_calls' = Append(vis_calls, sb)
    /\ suptitles' = Append(suptitles, steps_back_to_plot[frame + 1])
    /\ frame' = frame + 1
    /\ anim_pc' = IF frame + 1 = n_frames THEN "done" ELSE "animating"
    /\ UNCHANGED <<n_steps, fps, animation_length_halfsecs, n_frames,
                   steps_back_to_plot, gridVars, patVars, visVars, peVars>>

NextAnim == animate_hopfield_network \/ animate

SpecAnim == InitAnim /\ [][NextAnim]_vars

\* the steps_back of the frames drawn so far
FrameStepsBack == Tail(vis_calls)

\* the integer-truncated evenly spaced sample of [0, n_steps] of frame i (1-based)
EvenSample(i) == IF n_frames = 1 THEN 0 ELSE ((i - 1) * n_steps) \div (n_frames - 1)

FramesAsSampled ==
    /\ Len(FrameStepsBack) = n_frames /\ Len(suptitles) = n_frames
    /\ \A i \in 1..n_frames :
        /\ FrameStepsBack[i] = n_steps - EvenSample(i)
        /\ suptitles[i] = n_steps - FrameStepsBack[i]
    /\ \A i \in 1..(n_frames - 1) : FrameStepsBack[i] >= FrameStepsBack[i + 1]
    /\ FrameStepsBack[1] = n_steps

\* C6 as claimed: with n_frames >= 1 and n_steps >= 0 the frames 0 .. n_frames-1
\* are drawn with a non-increasing steps_back that starts at n_steps and ends
\* at 0 on the last frame, each n_steps minus the truncated evenly spaced
\* sample, the title being that sample.
C6_Claimed ==
    (anim_pc = "done" /\ n_frames >= 1) =>
        /\ FramesAsSampled
        /\ FrameStepsBack[n_frames] = 0

\* C6 amended: as claimed, but the last frame is drawn with steps_back = 0
\* only when n_frames >= 2 or n_steps = 0; with n_frames = 1 the single frame
\* is drawn with steps_back = n_steps.
C6_FramesAmended ==
    (anim_pc = "done" /\ n_frames >= 1) =>
        /\ FramesAsSampled
        /\ (n_frames >= 2 \/ n_steps = 0) => FrameStepsBack[n_frames] = 0
        /\ n_frames = 1 => FrameStepsBack = <<n_steps>>

C6_Witness ==
    /\ anim_pc = "done"
    /\ n_steps = 4 /\ n_frames = 4
    /\ FrameStepsBack = <<4, 3, 2, 0>>
    /\ suptitles = <<0, 1, 2, 4>>

(***************************************************************************)
(* plot_energy (utils.py 110-212).  Energies are integers; the distance    *)
(* |e - (max - k * ptp / 3)| is compared scaled by 3, which keeps the      *)
(* order.  n_steps_arg is <<>> for None and <<k>> for the integer k.       *)
(***************************************************************************)
EnergyVals == {-7, -2, -1, 0, 1, 2, 7}

SeqMax(seq) == SetMax({seq[k] : k \in 1..Len(seq)})
SeqMin(seq) == SetMin({seq[k] : k \in 1..Len(seq)})

\* the located index used as it is
InsetCountUnguarded(en, ns, k) ==
    ArgMin([i \in 1..Len(en) |->
        Abs(3 * en[i] - (3 * SeqMax(en) - k * (SeqMax(en) - SeqMin(en))))])

\* count = np.argmin(np.abs(energy - (max(energy) - k * np.ptp(energy) / 3)))
\* if count == 0: count = int(k * n_steps / 3)            (k = 1, 2)
InsetCount(en, ns, k) ==
    LET count == ArgMin([i \in 1..Len(en) |->
                    Abs(3 * en[i] - (3 * SeqMax(en) - k * (SeqMax(en) - SeqMin(en))))])
    IN  IF count = 0 THEN (k * ns) \div 3 ELSE count

InitEnergy ==
    /\ \E len \in 1..MaxEnergyLen : energy_history \in [1..len -> EnergyVals]
    /\ n_steps_arg = <<>> /\ pe_pc = "call"
    /\ pe_n_steps = 0 /\ energy = <<>> /\ t = <<>> /\ counts = <<>>
    /\ inset_states = <<>>
    /\ GridOff /\ PatOff /\ VisOff /\ AnimOff

\* ax.scatter(t, energy) raises ValueError when t and energy differ in size
\* (line 119); count / n_steps raises ZeroDivisionError when n_steps = 0
\* (line 171), after the first two insets are placed
plot_energy ==
    /\ pe_pc = "call"
    /\ \E arg \in {<<>>} \cup {<<k>> : k \in 0..MaxEnergyLen} :
        LET len == Len(energy_history)
            ns == IF arg = <<>> THEN len - 2 ELSE arg[1]
            en == PySliceFrom(energy_history, -ns - 1)
            tt == Arange(-ns - 1, 0)
        IN  /\ n_steps_arg' = arg
            /\ pe_n_steps' = ns
            /\ energy' = en
            /\ t' = tt
            /\ IF Len(tt) # Len(en)
               THEN pe_pc' = "ValueError" /\ counts' = <<>> /\ inset_states' = <<>>
               ELSE LET second == InsetCount(en, ns, 1)
                        third == InsetCount(en, ns, 2)
                    IN  IF ns = 0
                        THEN /\ pe_pc' = "ZeroDivisionError"
                             /\ counts' = <<second>>
                             /\ inset_states' = <<PyResolve(len, -ns - 1),
                                                  PyResolve(len, -ns - 1 + second)>>
                        ELSE /\ pe_pc' = "done"
                             /\ counts' = <<second, third>>
                             /\ inset_states' = <<PyResolve(len, -ns - 1),
                                                  PyResolve(len, -ns - 1 + second),
                                                  PyResolve(len, -ns - 1 + third),
                                                  PyResolve(len, -1)>>
    /\ UNCHANGED <<energy_history, gridVars, patVars, visVars, animVars>>

NextEnergy == plot_energy

SpecEnergy == InitEnergy /\ [][NextEnergy]_vars

StrictlyMonotonic(seq) ==
    \/ \A i \in 1..(Len(seq) - 1) : seq[i] < seq[i + 1]
    \/ \A i \in 1..(Len(seq) - 1) : seq[i] > seq[i + 1]

\* C7 as claimed: for a strictly monotonic energy sequence of n_steps + 1
\* values both intermediate inset indices are strictly greater than 0 and
\* strictly less than n_steps.
C7_Claimed ==
    (pe_pc = "done" /\ StrictlyMonotonic(energy)) =>
        \A c \in 1..Len(counts) : 0 < counts[c] /\ counts[c] < pe_n_steps

\* C7 amended: for a strictly monotonic energy sequence of n_steps + 1 values
\* with n_steps >= 3 both intermediate inset indices are strictly greater
\* than 0 and at most n_steps (they may be the last index).
C7_InsetsAmended ==
    (pe_pc = "done" /\ StrictlyMonotonic(energy) /\ pe_n_steps >= 3) =>
        /\ Len(counts) = 2
        /\ \A c \in 1..2 : 0 < counts[c] /\ counts[c] <= pe_n_steps

C7_Witness ==
    /\ pe_pc = "done"
    /\ energy = <<0, 1, 2, 7>>
    /\ pe_n_steps = 3
    /\ counts = <<3, 2>>

\* C8: for an energy history of length L >= 1, with n_steps unset (then
\* n_steps = L - 2) or given with 0 <= n_steps <= L - 1, the values plotted are
\* the last n_steps + 1 entries of the history, paired one-to-one with the
\* n_steps + 1 consecutive step positions that start at -n_steps - 1.
C8_Claimed ==
    LET L == Len(energy_history)
    IN  (pe_pc # "call" /\ (n_steps_arg = <<>> \/ n_steps_arg[1] <= L - 1)) =>
            /\ n_steps_arg = <<>> => pe_n_steps = L - 2
            /\ energy = SubSeq(energy_history, L - pe_n_steps, L)
            /\ Len(energy) = pe_n_steps + 1
            /\ Len(t) = Len(energy)
            /\ \A i \in 1..Len(t) : t[i] = (-pe_n_steps - 1) + (i - 1)

(***************************************************************************)
(* plot_patterns: the grid shape (utils.py 17-21)                          *)
(***************************************************************************)
\* int(np.sqrt(n)): the integer part of the square root
ISqrt(n) == CHOOSE k \in 0..n : k * k <= n /\ (k + 1) * (k + 1) > n

\* off by one: range(1, int(np.sqrt(N)))
CandidatesShort(n) == {i \in 1..(ISqrt(n) - 1) : n % i = 0}

\* the generator  i for i in range(1, int(np.sqrt(N) + 1)) if N % i == 0
Candidates(n) == {i \in 1..((ISqrt(n) + 1) - 1) : n % i = 0}

\* grid_shape = [grid_size, int(N / grid_size)]; grid_shape.sort()
GridShape(n) ==
    LET grid_size == SetMax(Candidates(n))
        other == n \div grid_size
    IN  IF grid_size <= other THEN <<grid_size, other>> ELSE <<other, grid_size>>

InitGrid ==
    /\ N \in 0..MaxN
    /\ grid_shape = <<>>
    /\ grid_pc = "call"
    /\ PatOff /\ VisOff /\ AnimOff /\ EnergyOff

\* max() of an empty generator raises ValueError (N = 0)
plot_patterns ==
    /\ grid_pc = "call"
    /\ IF Candidates(N) = {}
       THEN grid_pc' = "ValueError" /\ grid_shape' = grid_shape
       ELSE grid_pc' = "done" /\ grid_shape' = GridShape(N)
    /\ UNCHANGED <<N, patVars, visVars, animVars, peVars>>

NextGrid == plot_patterns

SpecGrid == InitGrid /\ [][NextGrid]_vars

IsPrime(n) == n >= 2 /\ \A d \in 2..(n - 1) : n % d # 0

\* C1: for every N >= 1 the grid shape is (rows, cols) with rows the largest
\* divisor of N that is <= sqrt(N) and cols = N / rows, so rows * cols = N and
\* rows <= cols; a prime N (or 1) gives (1, N); the computation never raises.
C1_GridShape ==
    N >= 1 =>
        /\ grid_pc # "ValueError"
        /\ grid_pc = "done" =>
            LET rows == grid_shape[1]
                cols == grid_shape[2]
            IN  /\ rows * cols = N
                /\ rows <= cols
                /\ N % rows = 0 /\ rows * rows <= N
                /\ \A d \in 1..N : (N % d = 0 /\ d * d <= N) => d <= rows
                /\ (IsPrime(N) \/ N = 1) => grid_shape = <<1, N>>

C1_Witness == grid_pc = "done" /\ N = 12 /\ grid_shape = <<3, 4>>

====
